---- MODULE Spec2Model ----
(***************************************************************************)
(* Model of src/main.py: a FastAPI service over a two-table SQLite store   *)
(* (members, checkin_checkout).  Every request runs its handler on its own *)
(* connection; handlers of concurrent requests interleave between their    *)
(* SQL statements.  SQLite serialises writers: a connection that executed  *)
(* an INSERT/UPDATE holds the write lock until it commits or rolls back,   *)
(* and other connections read the committed tables meanwhile.              *)
(***************************************************************************)
EXTENDS Integers, Sequences, FiniteSets, TLC

\* ---------------------------------------------------------------- bounds
MaxMembers == 2          \* rows the members table may grow to
MaxAttendees == 1        \* members that join while requests overlap

Requests == {"r1", "r2"} \* request slots that may be in flight together
Names == {"", "a"}       \* strings a client may send as a name

\* ------------------------------------------------------------ data model
\* Optional values: None is the empty set, a present value v is {v}.
NULL == {}
Some(v) == {v}
TheValue(o) == CHOOSE v \in o : TRUE

\* Path parameters a client may send: every id in use and one that is not.
Ids == 1..(MaxMembers + 1)
\* Values datetime.now() may return: two instants of one minute of one day.
\* It is the wall clock: nothing makes it increase from one call to the next.
Timestamps ==
    {[hour |-> 14, minute |-> 7, second |-> 0],
     [hour |-> 14, minute |-> 7, second |-> 30]}
Fields == {"full_name", "team_name"}
OptNames == {NULL} \cup {Some(n) : n \in Names}

\* class Member: the response model.
Member(id, full_name, team_name, check_in, check_out) ==
    [id |-> id, full_name |-> full_name, team_name |-> team_name,
     check_in |-> check_in, check_out |-> check_out]

NoMember == Member(0, "", "", NULL, NULL)

\* A request body as pydantic sees it: the fields the client supplied
\* (fields_set) and their values; a supplied value may be JSON null.
Bodies ==
    {[fields_set |-> fs, full_name |-> fn, team_name |-> tn] :
        fs \in SUBSET Fields, fn \in OptNames, tn \in OptNames}

WellFormedBody(b) ==
    /\ ("full_name" \notin b.fields_set => b.full_name = NULL)
    /\ ("team_name" \notin b.fields_set => b.team_name = NULL)

EmptyBody == [fields_set |-> {}, full_name |-> NULL, team_name |-> NULL]
JoinBody == [fields_set |-> Fields, full_name |-> Some("a"), team_name |-> Some("a")]

\* class MemberCreate: both fields are required strings.  A missing field
\* and a null are rejected; any string, the empty one included, is accepted.
MemberCreate(b) ==
    /\ "full_name" \in b.fields_set /\ b.full_name # NULL
    /\ "team_name" \in b.fields_set /\ b.team_name # NULL

\* class MemberUpdate + .dict(exclude_unset=True): the supplied fields only.
MemberUpdate(b) == b.fields_set

\* update_data.get(f): the supplied value, None when absent.
UpdateGet(b, f) ==
    IF f \notin MemberUpdate(b) THEN NULL
    ELSE IF f = "full_name" THEN b.full_name ELSE b.team_name

\* SQL COALESCE(?, column)
COALESCE(param, column) == IF param # NULL THEN TheValue(param) ELSE column

\* strftime("... %I:%M %p"): the 12-hour clock, the minute and AM/PM; the
\* seconds are not rendered.
strftime(t) ==
    [hour |-> IF t.hour % 12 = 0 THEN 12 ELSE t.hour % 12,
     minute |-> t.minute,
     p |-> IF t.hour < 12 THEN "AM" ELSE "PM"]

\* format_datetime: None stays None, a timestamp is rendered.
format_datetime(dt) ==
    IF dt # NULL THEN Some(strftime(TheValue(dt))) ELSE NULL

VARIABLES
    members,           \* table members: row i has id i
    checkin_checkout,  \* table checkin_checkout (committed rows)
    writer,            \* the request holding SQLite's write lock, or "none"
    pending,           \* checkin_checkout as the writer's open transaction sees it
    pc,                \* each request's position in its handler
    op,                \* each request's operation
    conn,              \* each request's connection: "none" or "open"
    member_id,         \* path parameter
    body,              \* request body
    member,            \* handler local: the members row fetched
    now,               \* handler local: now
    result,            \* the response
    atCall             \* the member's committed check_in / check_out at call time

vars == <<members, checkin_checkout, writer, pending, pc, op, conn,
          member_id, body, member, now, result, atCall>>

store == <<members, checkin_checkout>>
args == <<op, member_id, atCall>>
frame == <<body, member, now>>

Ops == {"create_member", "get_member", "update_member", "checkin", "checkout"}

\* -------------------------------------------------------------- queries
\* SELECT * FROM members WHERE id = ?
MemberExists(id) == id \in 1..Len(members)

\* SELECT * FROM checkin_checkout WHERE member_id = ?  (all matching rows)
RowsOf(table, id) == {i \in 1..Len(table) : table[i].member_id = id}

\* cursor.fetchone(): the first matching row, None when there is none.
FetchOne(table, id) ==
    IF RowsOf(table, id) = {} THEN NULL
    ELSE Some(table[CHOOSE i \in RowsOf(table, id) :
                        \A j \in RowsOf(table, id) : i <= j])

CheckInOf(table, id) ==
    IF FetchOne(table, id) = NULL THEN NULL
    ELSE TheValue(FetchOne(table, id)).check_in

CheckOutOf(table, id) ==
    IF FetchOne(table, id) = NULL THEN NULL
    ELSE TheValue(FetchOne(table, id)).check_out

\* The Member a handler returns: the members row joined with its attendance.
MemberView(ms, table, id) ==
    Member(id, ms[id].full_name, ms[id].team_name,
           format_datetime(CheckInOf(table, id)),
           format_datetime(CheckOutOf(table, id)))

\* A response: the status code, the kind of detail / message, the member name
\* and formatted time the message carries, and the Member body if any.
Response(status, detail, name, at, m) ==
    [status |-> status, detail |-> detail, name |-> name, at |-> at, member |-> m]

NoResponse == Response(0, "", "", NULL, NoMember)
NotFound == Response(404, "Member not found", "", NULL, NoMember)
NoRow == [id |-> 0, full_name |-> "", team_name |-> ""]
Row(id) == [id |-> id, full_name |-> members[id].full_name,
            team_name |-> members[id].team_name]

\* ------------------------------------------------------------ statements
\* The insert with its two parameters bound in the wrong order.
InsertMember_Swapped(ms, full_name, team_name) ==
    Append(ms, [full_name |-> team_name, team_name |-> full_name])

\* INSERT INTO members (full_name, team_name): the new rowid is the next one.
InsertMember(ms, full_name, team_name) ==
    Append(ms, [full_name |-> full_name, team_name |-> team_name])

\* The update without COALESCE: an absent field is written as empty.
UpdateMember_Overwrite(ms, id, b) ==
    [ms EXCEPT ![id] =
        [full_name |-> COALESCE(UpdateGet(b, "full_name"), ""),
         team_name |-> COALESCE(UpdateGet(b, "team_name"), "")]]

\* UPDATE members SET full_name = COALESCE(?, full_name),
\*                    team_name = COALESCE(?, team_name) WHERE id = ?
UpdateMember(ms, id, b) ==
    [ms EXCEPT ![id] =
        [full_name |-> COALESCE(UpdateGet(b, "full_name"), ms[id].full_name),
         team_name |-> COALESCE(UpdateGet(b, "team_name"), ms[id].team_name)]]

\* The row the UNIQUE(member_id) index finds for an insert of member_id = id.
Conflict(table, id) == CHOOSE i \in RowsOf(table, id) : \A j \in RowsOf(table, id) : i <= j

\* The insert without the UNIQUE(member_id) index: there is never a conflict.
UpsertCheckIn_NoUnique(table, id, ts) ==
    Append(table, [member_id |-> id, check_in |-> ts, check_out |-> NULL])

\* INSERT INTO checkin_checkout (member_id, check_in) VALUES (?, ?)
\* ON CONFLICT(member_id) DO UPDATE SET check_in = excluded.check_in
UpsertCheckIn(table, id, ts) ==
    IF RowsOf(table, id) = {}
    THEN Append(table, [member_id |-> id, check_in |-> ts, check_out |-> NULL])
    ELSE [table EXCEPT ![Conflict(table, id)].check_in = ts]

\* INSERT OR REPLACE: the conflicting row is replaced by the inserted one.
UpsertCheckOut_Replace(table, id, ts) ==
    IF RowsOf(table, id) = {}
    THEN Append(table, [member_id |-> id, check_in |-> NULL, check_out |-> ts])
    ELSE [table EXCEPT ![Conflict(table, id)] =
            [member_id |-> id, check_in |-> NULL, check_out |-> ts]]

\* INSERT INTO checkin_checkout (member_id, check_out) VALUES (?, ?)
\* ON CONFLICT(member_id) DO UPDATE SET check_out = excluded.check_out
UpsertCheckOut(table, id, ts) ==
    IF RowsOf(table, id) = {}
    THEN Append(table, [member_id |-> id, check_in |-> NULL, check_out |-> ts])
    ELSE [table EXCEPT ![Conflict(table, id)].check_out = ts]

\* db.commit(): the transaction's rows become the committed table.
Commit(committed, txn) == txn

\* A rollback that keeps what the transaction wrote.
Rollback_Keeps(committed, txn) == txn

\* db.rollback(): the transaction's rows are dropped.
Rollback(committed, txn) == committed

\* ------------------------------------------------------------------ Init
\* init_db(): both tables exist and are empty; no request is in flight.
Init ==
    /\ members = <<>>
    /\ checkin_checkout = <<>>
    /\ writer = "none"
    /\ pending = <<>>
    /\ pc = [r \in Requests |-> "idle"]
    /\ op = [r \in Requests |-> "none"]
    /\ conn = [r \in Requests |-> "none"]
    /\ member_id = [r \in Requests |-> 0]
    /\ body = [r \in Requests |-> EmptyBody]
    /\ member = [r \in Requests |-> NoRow]
    /\ now = [r \in Requests |-> NULL]
    /\ result = [r \in Requests |-> NoResponse]
    /\ atCall = [r \in Requests |-> NULL]

\* get_db(): a request arrives and FastAPI resolves Depends(get_db): a new
\* connection is opened for this request alone.  The request is one of ops,
\* with a body of bodies and a path id of ids.
get_db(r, ops, bodies, ids) ==
    /\ pc[r] = "idle"
    /\ conn[r] = "none"
    /\ \E o \in ops :
       \E id \in (IF o = "create_member" THEN {0} ELSE ids) :
       \E b \in (IF o \in {"create_member", "update_member"} THEN bodies
                 ELSE {EmptyBody}) :
        /\ op' = [op EXCEPT ![r] = o]
        /\ member_id' = [member_id EXCEPT ![r] = id]
        /\ body' = [body EXCEPT ![r] = b]
        /\ atCall' = [atCall EXCEPT ![r] =
                IF o = "checkin" THEN CheckInOf(checkin_checkout, id)
                ELSE IF o = "checkout" THEN CheckOutOf(checkin_checkout, id)
                ELSE NULL]
        /\ pc' = [pc EXCEPT ![r] = o]
    /\ conn' = [conn EXCEPT ![r] = "open"]
    /\ UNCHANGED <<store, writer, pending, member, now, result>>

\* The handler returned or raised: the response is complete and the
\* handler's locals are gone.
Return(r, resp) ==
    /\ pc' = [pc EXCEPT ![r] = "done"]
    /\ result' = [result EXCEPT ![r] = resp]
    /\ body' = [body EXCEPT ![r] = EmptyBody]
    /\ member' = [member EXCEPT ![r] = NoRow]
    /\ now' = [now EXCEPT ![r] = NULL]

Goto(r, label) ==
    /\ pc' = [pc EXCEPT ![r] = label]
    /\ UNCHANGED result

\* No handler closes its connection: it stays open after the response and
\* is closed only when the runtime reclaims the Connection object.
Reclaim(r) ==
    /\ pc[r] = "done"
    /\ pc' = [pc EXCEPT ![r] = "idle"]
    /\ conn' = [conn EXCEPT ![r] = "none"]
    /\ op' = [op EXCEPT ![r] = "none"]
    /\ member_id' = [member_id EXCEPT ![r] = 0]
    /\ result' = [result EXCEPT ![r] = NoResponse]
    /\ atCall' = [atCall EXCEPT ![r] = NULL]
    /\ UNCHANGED <<store, writer, pending, frame>>

\* ------------------------------------------------------------- handlers
\* create_member with both fields optional: an absent field is stored as empty.
create_member_Unvalidated(r, cap) ==
    /\ pc[r] = "create_member"
    /\ writer = "none"
    /\ Len(members) < cap
    /\ members' = InsertMember(members, COALESCE(body[r].full_name, ""),
                               COALESCE(body[r].team_name, ""))
    /\ member_id' = [member_id EXCEPT ![r] = Len(members')]
    /\ Return(r, Response(200, "member", "", NULL,
            Member(member_id'[r], COALESCE(body[r].full_name, ""),
                   COALESCE(body[r].team_name, ""), NULL, NULL)))
    /\ UNCHANGED <<checkin_checkout, writer, pending, conn, op, atCall>>

\* create_member.  FastAPI validates the body against MemberCreate first and
\* answers 422 without calling the handler; otherwise INSERT, commit, return.
\* The table grows to cap rows at most.
create_member(r, cap) ==
    /\ pc[r] = "create_member"
    /\ IF ~MemberCreate(body[r])
       THEN /\ Return(r, Response(422, "validation error", "", NULL, NoMember))
            /\ UNCHANGED <<store, member_id>>
       ELSE /\ writer = "none"
            /\ Len(members) < cap
            /\ members' = InsertMember(members, TheValue(body[r].full_name),
                                       TheValue(body[r].team_name))
            /\ member_id' = [member_id EXCEPT ![r] = Len(members')]
            /\ Return(r, Response(200, "member", "", NULL,
                    Member(member_id'[r], TheValue(body[r].full_name),
                           TheValue(body[r].team_name), NULL, NULL)))
            /\ UNCHANGED checkin_checkout
    /\ UNCHANGED <<writer, pending, conn, op, atCall>>

\* The lookup without the 404: the handler goes on with no row.
Lookup_NoCheck(r, label) ==
    /\ member' = [member EXCEPT ![r] =
            IF MemberExists(member_id[r]) THEN Row(member_id[r]) ELSE NoRow]
    /\ Goto(r, label)
    /\ UNCHANGED <<store, writer, pending, conn, args, body, now>>

\* The member lookup every other handler starts with:
\* SELECT * FROM members WHERE id = ?; 404 when there is no such row.
Lookup(r, label) ==
    /\ IF ~MemberExists(member_id[r])
       THEN Return(r, NotFound)
       ELSE /\ member' = [member EXCEPT ![r] = Row(member_id[r])]
            /\ Goto(r, label)
            /\ UNCHANGED <<body, now>>
    /\ UNCHANGED <<store, writer, pending, conn, args>>

get_member_lookup(r) ==
    /\ pc[r] = "get_member"
    /\ Lookup(r, "get_member_return")

\* get_member: read the attendance row and build the Member.
get_member_return(r) ==
    /\ pc[r] = "get_member_return"
    /\ Return(r, Response(200, "member", "", NULL,
            Member(member[r].id, member[r].full_name, member[r].team_name,
                   format_datetime(CheckInOf(checkin_checkout, member_id[r])),
                   format_datetime(CheckOutOf(checkin_checkout, member_id[r])))))
    /\ UNCHANGED <<store, writer, pending, conn, args>>

update_member_lookup(r) ==
    /\ pc[r] = "update_member"
    /\ Lookup(r, "update_member_update")

\* update_member: if any field was supplied, UPDATE and commit.
update_member_update(r) ==
    /\ pc[r] = "update_member_update"
    /\ IF MemberUpdate(body[r]) # {}
       THEN /\ writer = "none"
            /\ members' = UpdateMember(members, member_id[r], body[r])
       ELSE UNCHANGED members
    /\ Goto(r, "update_member_return")
    /\ UNCHANGED <<checkin_checkout, writer, pending, conn, args, frame>>

\* update_member: read the row and its attendance again and return them.
update_member_return(r) ==
    /\ pc[r] = "update_member_return"
    /\ Return(r, Response(200, "member", "", NULL,
            MemberView(members, checkin_checkout, member_id[r])))
    /\ UNCHANGED <<store, writer, pending, conn, args>>

checkin_lookup(r) ==
    /\ pc[r] = "checkin"
    /\ Lookup(r, "checkin_read")

\* checkin without the early return: the upsert always follows.
checkin_read_NoReturn(r) ==
    /\ pc[r] = "checkin_read"
    /\ \E t \in Timestamps : now' = [now EXCEPT ![r] = Some(t)]
    /\ Goto(r, "checkin_upsert")
    /\ UNCHANGED <<store, writer, pending, conn, args, body, member>>

\* checkin: read the attendance row, take now, return early when the row
\* has a check_in.
checkin_read(r) ==
    /\ pc[r] = "checkin_read"
    /\ IF CheckInOf(checkin_checkout, member_id[r]) # NULL
       THEN Return(r, Response(200, "already checked in", member[r].full_name,
                               NULL, NoMember))
       ELSE /\ \E t \in Timestamps : now' = [now EXCEPT ![r] = Some(t)]
            /\ Goto(r, "checkin_upsert")
            /\ UNCHANGED <<body, member>>
    /\ UNCHANGED <<store, writer, pending, conn, args>>

\* checkin: the upsert.  It takes the write lock; the storage layer may
\* reject the statement with an IntegrityError, leaving the transaction open.
checkin_upsert(r) ==
    /\ pc[r] = "checkin_upsert"
    /\ writer = "none"
    /\ writer' = r
    /\ \/ /\ pending' = UpsertCheckIn(checkin_checkout, member_id[r], now[r])
          /\ Goto(r, "checkin_commit")
       \/ /\ pending' = checkin_checkout
          /\ Goto(r, "checkin_except")
    /\ UNCHANGED <<store, conn, args, frame>>

\* checkin: db.commit() and the success message; the commit may raise too.
checkin_commit(r) ==
    /\ pc[r] = "checkin_commit"
    /\ writer = r
    /\ \/ /\ checkin_checkout' = Commit(checkin_checkout, pending)
          /\ writer' = "none"
          /\ pending' = <<>>
          /\ Return(r, Response(200, "has checked in", member[r].full_name,
                                format_datetime(now[r]), NoMember))
       \/ /\ Goto(r, "checkin_except")
          /\ UNCHANGED <<checkin_checkout, writer, pending, frame>>
    /\ UNCHANGED <<members, conn, args>>

\* checkin: except IntegrityError: db.rollback(), then 500.
checkin_except(r) ==
    /\ pc[r] = "checkin_except"
    /\ writer = r
    /\ checkin_checkout' = Rollback(checkin_checkout, pending)
    /\ writer' = "none"
    /\ pending' = <<>>
    /\ Return(r, Response(500, "Database integrity error during check-in",
                          "", NULL, NoMember))
    /\ UNCHANGED <<members, conn, args>>

checkout_lookup(r) ==
    /\ pc[r] = "checkout"
    /\ Lookup(r, "checkout_read")

\* checkout: read the attendance row, take now, return early when the row
\* has a check_out.
checkout_read(r) ==
    /\ pc[r] = "checkout_read"
    /\ IF CheckOutOf(checkin_checkout, member_id[r]) # NULL
       THEN Return(r, Response(200, "already checked out", member[r].full_name,
                               NULL, NoMember))
       ELSE /\ \E t \in Timestamps : now' = [now EXCEPT ![r] = Some(t)]
            /\ Goto(r, "checkout_upsert")
            /\ UNCHANGED <<body, member>>
    /\ UNCHANGED <<store, writer, pending, conn, args>>

checkout_upsert(r) ==
    /\ pc[r] = "checkout_upsert"
    /\ writer = "none"
    /\ writer' = r
    /\ \/ /\ pending' = UpsertCheckOut(checkin_checkout, member_id[r], now[r])
          /\ Goto(r, "checkout_commit")
       \/ /\ pending' = checkin_checkout
          /\ Goto(r, "checkout_except")
    /\ UNCHANGED <<store, conn, args, frame>>

checkout_commit(r) ==
    /\ pc[r] = "checkout_commit"
    /\ writer = r
    /\ \/ /\ checkin_checkout' = Commit(checkin_checkout, pending)
          /\ writer' = "none"
          /\ pending' = <<>>
          /\ Return(r, Response(200, "has checked out", member[r].full_name,
                                format_datetime(now[r]), NoMember))
       \/ /\ Goto(r, "checkout_except")
          /\ UNCHANGED <<checkin_checkout, writer, pending, frame>>
    /\ UNCHANGED <<members, conn, args>>

checkout_except(r) ==
    /\ pc[r] = "checkout_except"
    /\ writer = r
    /\ checkin_checkout' = Rollback(checkin_checkout, pending)
    /\ writer' = "none"
    /\ pending' = <<>>
    /\ Return(r, Response(500, "Database integrity error during check-out",
                          "", NULL, NoMember))
    /\ UNCHANGED <<members, conn, args>>

\* ------------------------------------------------------------------ Next
\* The steps of the handlers that read and write members.
MemberSteps(r) ==
    \/ get_member_lookup(r)
    \/ get_member_return(r)
    \/ update_member_lookup(r)
    \/ update_member_update(r)
    \/ update_member_return(r)

\* The steps of the two attendance handlers.
AttendanceSteps(r) ==
    \/ checkin_lookup(r)
    \/ checkin_read(r)
    \/ checkin_upsert(r)
    \/ checkin_commit(r)
    \/ checkin_except(r)
    \/ checkout_lookup(r)
    \/ checkout_read(r)
    \/ checkout_upsert(r)
    \/ checkout_commit(r)
    \/ checkout_except(r)

\* Requests arrive one at a time: members are created, read, updated and
\* checked in, with every body and id a client may send.
NoneInFlight == \A q \in Requests : pc[q] = "idle"

NextSerial ==
    \/ \E r \in Requests :
          /\ NoneInFlight
          /\ get_db(r, Ops \ {"checkout"}, {b \in Bodies : WellFormedBody(b)}, Ids)
    \/ \E r \in Requests : create_member(r, MaxMembers)
    \/ \E r \in Requests : MemberSteps(r)
    \/ \E r \in Requests : checkin_lookup(r)
    \/ \E r \in Requests : checkin_read(r)
    \/ \E r \in Requests : checkin_upsert(r)
    \/ \E r \in Requests : checkin_commit(r)
    \/ \E r \in Requests : checkin_except(r)
    \/ \E r \in Requests : Reclaim(r)

SpecSerial == Init /\ [][NextSerial]_vars

\* Requests overlap: members join, are read and updated, and check in and
\* out, concurrently.
Next ==
    \/ \E r \in Requests : get_db(r, Ops, {JoinBody}, 1..(MaxAttendees + 1))
    \/ \E r \in Requests : create_member(r, MaxAttendees)
    \/ \E r \in Requests : MemberSteps(r)
    \/ \E r \in Requests : AttendanceSteps(r)
    \/ \E r \in Requests : Reclaim(r)

Spec == Init /\ [][Next]_vars

\* ---------------------------------------------------------------- claims
Succeeded(r, o, detail) ==
    /\ pc[r] = "done"
    /\ op[r] = o
    /\ result[r].status = 200
    /\ result[r].detail = detail

\* A step of request r's handler.
StepOf(r) == pc[r] \notin {"idle", "done"} /\ pc'[r] # pc[r]

\* C1: in every reachable state, whatever the interleaving of concurrent
\* check-ins (and check-outs), the committed checkin_checkout table and the
\* writer's open transaction hold at most one row per member_id.
C1_OneRowPerMember ==
    \A id \in Ids :
        /\ Cardinality(RowsOf(checkin_checkout, id)) <= 1
        /\ Cardinality(RowsOf(pending, id)) <= 1

\* Two overlapping check-ins of one member both ran their upsert and
\* committed, and the member has one row.
C1_Witness ==
    \E r, q \in Requests :
        /\ r # q
        /\ Succeeded(r, "checkin", "has checked in")
        /\ Succeeded(q, "checkin", "has checked in")
        /\ member_id[r] = member_id[q]
        /\ Cardinality(RowsOf(checkin_checkout, member_id[r])) = 1

\* C10: check_in and check_out are write-once: once the committed row of a
\* member has a non-null check_in (check_out), no later step changes it.
C10_WriteOnce ==
    [][\A id \in Ids :
        /\ CheckInOf(checkin_checkout, id) # NULL
            => CheckInOf(checkin_checkout', id) = CheckInOf(checkin_checkout, id)
        /\ CheckOutOf(checkin_checkout, id) # NULL
            => CheckOutOf(checkin_checkout', id) = CheckOutOf(checkin_checkout, id)]_vars

\* C2: a checkin called when the member's committed row already has a
\* check_in never changes the store in any of its steps, never reaches the
\* upsert, and ends with the 200 "already checked in" message.
C2_AlreadyCheckedIn ==
    [][\A r \in Requests :
        (op[r] = "checkin" /\ atCall[r] # NULL /\ StepOf(r)) =>
            /\ store' = store
            /\ pc'[r] \in {"checkin_read", "done"}
            /\ pc'[r] = "done" =>
                  /\ result'[r].status = 200
                  /\ result'[r].detail = "already checked in"]_vars

\* A second checkin, called after the first one committed, has returned.
C2_Witness ==
    \E r \in Requests :
        /\ Succeeded(r, "checkin", "already checked in")
        /\ atCall[r] # NULL
        /\ CheckInOf(checkin_checkout, member_id[r]) = atCall[r]
        /\ CheckOutOf(checkin_checkout, member_id[r]) # NULL

\* C6: checkin and checkout each set their own field.  No step of a
\* checkout changes any check_in and no step of a checkin changes any
\* check_out; a checkout that finds no attendance row goes on to its upsert
\* and its commit creates the row with check_out = now and check_in null;
\* when a checkin and a checkout of one member have both succeeded, the
\* member's single row has both fields non-null.
C6_IndependentFields ==
    [][/\ \A r \in Requests : \A id \in Ids :
            /\ (op[r] = "checkout" /\ StepOf(r)) =>
                  CheckInOf(checkin_checkout', id) = CheckInOf(checkin_checkout, id)
            /\ (op[r] = "checkin" /\ StepOf(r)) =>
                  CheckOutOf(checkin_checkout', id) = CheckOutOf(checkin_checkout, id)
       /\ \A r \in Requests :
            /\ (pc[r] = "checkout_read" /\ StepOf(r)
                    /\ FetchOne(checkin_checkout, member_id[r]) = NULL) =>
                  pc'[r] = "checkout_upsert"
            /\ (pc[r] = "checkout_commit" /\ pc'[r] = "done"
                    /\ FetchOne(checkin_checkout, member_id[r]) = NULL) =>
                  /\ result'[r].status = 200
                  /\ Cardinality(RowsOf(checkin_checkout', member_id[r])) = 1
                  /\ CheckOutOf(checkin_checkout', member_id[r]) = now[r]
                  /\ CheckInOf(checkin_checkout', member_id[r]) = NULL
       /\ \A r, q \in Requests :
            (/\ Succeeded(r, "checkin", "has checked in")'
             /\ Succeeded(q, "checkout", "has checked out")'
             /\ member_id'[r] = member_id'[q]) =>
                  /\ Cardinality(RowsOf(checkin_checkout', member_id'[r])) = 1
                  /\ CheckInOf(checkin_checkout', member_id'[r]) # NULL
                  /\ CheckOutOf(checkin_checkout', member_id'[r]) # NULL]_vars

\* A checkin and a checkout of one member, in flight together, have both
\* succeeded and the member's row has both fields.
C6_Witness ==
    \E r, q \in Requests :
        /\ Succeeded(r, "checkin", "has checked in")
        /\ Succeeded(q, "checkout", "has checked out")
        /\ member_id[r] = member_id[q]
        /\ atCall[r] = NULL /\ atCall[q] = NULL
        /\ CheckInOf(checkin_checkout, member_id[r]) # NULL
        /\ CheckOutOf(checkin_checkout, member_id[r]) # NULL

\* C7: when the upsert or the commit of checkin or checkout raises an
\* IntegrityError, the handler rolls back and answers 500 with the
\* integrity detail, in one step and without running the upsert again, and
\* the store is what it was before the upsert.
C7_IntegrityError ==
    [][\A r \in Requests :
        /\ (StepOf(r) /\ pc'[r] \in {"checkin_except", "checkout_except"}) =>
              store' = store
        /\ (StepOf(r) /\ pc[r] \in {"checkin_except", "checkout_except"}) =>
              /\ store' = store
              /\ pc'[r] = "done"
              /\ result'[r].status = 500
              /\ result'[r].detail =
                    (IF op[r] = "checkin"
                     THEN "Database integrity error during check-in"
                     ELSE "Database integrity error during check-out")
              /\ writer' = "none"]_vars

\* A checkout ended with the 500 integrity error.
C7_Witness ==
    \E r \in Requests :
        /\ pc[r] = "done"
        /\ op[r] = "checkout"
        /\ result[r].status = 500
        /\ checkin_checkout # <<>>

\* What the claim C3 calls an invalid body: a name missing, null or empty.
MissingOrEmpty(b) ==
    \/ b.full_name = NULL \/ b.full_name = Some("")
    \/ b.team_name = NULL \/ b.team_name = Some("")

C4_NotFound ==
    [][/\ \A r \in Requests :
            (/\ op[r] \in {"get_member", "update_member", "checkin", "checkout"}
             /\ StepOf(r)
             /\ ~MemberExists(member_id[r])) =>
                /\ pc'[r] = "done"
                /\ result'[r] = NotFound
                /\ store' = store
       /\ \A i \in 1..Len(checkin_checkout') :
            checkin_checkout'[i].member_id \in 1..Len(members')
       /\ \A i \in 1..Len(pending') :
            pending'[i].member_id \in 1..Len(members')]_vars

\* A checkout and an update_member of an id that is no member's were both
\* answered 404 while the tables hold a member and its attendance row.
C4_Witness ==
    \E r, q \in Requests :
        /\ pc[r] = "done" /\ op[r] = "checkout" /\ result[r] = NotFound
        /\ pc[q] = "done" /\ op[q] = "update_member" /\ result[q] = NotFound
        /\ ~MemberExists(member_id[r])
        /\ Len(members) > 0
        /\ checkin_checkout # <<>>

\* C5: no step of update_member changes the attendance table, the number of
\* members or another member's row, and a field that the body does not
\* supply keeps its value; with no field supplied the row is unchanged.
C5_PartialUpdate ==
    [][\A r \in Requests :
        (op[r] = "update_member" /\ StepOf(r) /\ MemberExists(member_id[r])) =>
            /\ checkin_checkout' = checkin_checkout
            /\ Len(members') = Len(members)
            /\ \A i \in 1..Len(members) :
                    i # member_id[r] => members'[i] = members[i]
            /\ "full_name" \notin body[r].fields_set =>
                    members'[member_id[r]].full_name = members[member_id[r]].full_name
            /\ "team_name" \notin body[r].fields_set =>
                    members'[member_id[r]].team_name = members[member_id[r]].team_name
            /\ body[r].fields_set = {} => members' = members]_vars

\* An update_member that supplied only team_name has run its UPDATE: the
\* row has the new team_name and its full_name, beside another member and
\* an attendance row.
C5_Witness ==
    \E r \in Requests :
        /\ pc[r] = "update_member_return"
        /\ body[r].fields_set = {"team_name"}
        /\ body[r].team_name = Some("")
        /\ members[member_id[r]] = [full_name |-> "a", team_name |-> ""]
        /\ Len(members) = 2
        /\ checkin_checkout # <<>>

\* C8: when create_member succeeds, the id it returns is no earlier
\* member's id, and a get_member of that id on the store it leaves returns
\* the full_name and team_name that were sent, with check_in and check_out
\* null: the same Member that create_member returned.  (What get_member
\* returns on a store is the join MemberView of it.)
C8_CreateThenGet ==
    [][\A r \in Requests :
       /\ (pc[r] = "get_member_return" /\ StepOf(r)) =>
            /\ result'[r].status = 200
            /\ result'[r].member = MemberView(members, checkin_checkout, member_id[r])
       /\ (pc[r] = "create_member" /\ StepOf(r) /\ result'[r].status = 200) =>
            /\ result'[r].member.id \notin 1..Len(members)
            /\ result'[r].member.id \in 1..Len(members')
            /\ MemberView(members', checkin_checkout', result'[r].member.id)
                    = Member(result'[r].member.id, TheValue(body[r].full_name),
                             TheValue(body[r].team_name), NULL, NULL)
            /\ MemberView(members', checkin_checkout', result'[r].member.id)
                    = result'[r].member]_vars

\* A second member was created, with two different names, while the first
\* one has an attendance row.
C8_Witness ==
    \E r \in Requests :
        /\ Succeeded(r, "create_member", "member")
        /\ result[r].member.id = 2
        /\ result[r].member.full_name # result[r].member.team_name
        /\ CheckInOf(checkin_checkout, 1) # NULL

\* C9: when a request has finished, on any exit path, its connection is
\* no longer open.
C9_ConnectionReleased ==
    \A r \in Requests : pc[r] = "done" => conn[r] # "open"

====
